---- MODULE Spec2Model ----
(***************************************************************************)
(* A model of app.py: the report-generation pipeline (five guarded web     *)
(* searches, one LLM call, one PDF write, one row insert) and the two-tab  *)
(* Streamlit script that drives it.                                        *)
(*                                                                         *)
(* A Python str that is sliced or measured (the search texts) is a         *)
(* sequence of one-character strings.  A str that is only concatenated and *)
(* compared (company names, file names, paragraph texts) is a TLA+ string. *)
(* An optional value is a sequence of length 0 (None / unset) or 1.        *)
(* A call that may raise returns [raised, val].                            *)
(***************************************************************************)
EXTENDS Integers, Sequences, FiniteSets, TLC

\* ------------------------------------------------------------ bounds

\* Script runs (user interactions) explored.
MaxRuns == 2
\* Length of the long search content; LongLen + 1 + a short content
\* exceeds max_chars.
LongLen == 2499
\* Result items of one search response.
MaxItems == 2
\* The clock is read as ClockStart, ..., ClockStart + ClockSpan seconds
\* after midnight; the values straddle a minute boundary.
ClockStart == 59
ClockSpan == 1

\* ------------------------------------------------- program constants

\* limit_text(text, max_chars=2500)
max_chars == 2500

\* ------------------------------------------------------------- values

Ret(v) == [raised |-> FALSE, val |-> v]
Raise == [raised |-> TRUE, val |-> <<>>]

\* Python values handed to limit_text: None or a str.
PyNone == [kind |-> "None", s |-> <<>>]
PyStr(t) == [kind |-> "str", s |-> t]

Min(a, b) == IF a <= b THEN a ELSE b

IsPrefix(p, t) == Len(p) <= Len(t) /\ SubSeq(t, 1, Len(p)) = p

\* ----------------------------------------------------------- UTILS

\* limit_text without the slice: what a missing [:max_chars] would return.
limit_text_noslice(text, n) == IF text.kind = "None" \/ text.s = <<>> THEN <<>> ELSE text.s

\* def limit_text(text, max_chars=2500):
\*     if not text: return ""
\*     return str(text)[:max_chars]
limit_text(text, n) ==
    IF text.kind = "None" \/ text.s = <<>>
    THEN <<>>
    ELSE SubSeq(text.s, 1, Min(Len(text.s), n))

\* An item of result["results"]: a dict with a str "content", a dict
\* without "content", or something item.get / str.join raises on.
ItemText(t) == [kind |-> "text", content |-> t]
ItemNoContent == [kind |-> "nocontent", content |-> <<>>]
ItemBad == [kind |-> "bad", content |-> <<>>]

\* item.get("content", "")
item_get_content(item) == IF item.kind = "text" THEN item.content ELSE <<>>

\* " ".join(parts)
RECURSIVE join(_)
join(parts) ==
    IF parts = <<>> THEN <<>>
    ELSE IF Len(parts) = 1 THEN parts[1]
    ELSE parts[1] \o <<" ">> \o join(Tail(parts))

\* A value tavily.search returns or raises:
\*   raise       the call raised (network error, timeout, bad key)
\*   none        a falsy result (None, {})
\*   nokey       a dict with no "results" key
\*   badresults  "results" is not iterable
\*   ok          "results" is a list of items
Response(k, items) == [kind |-> k, results |-> items]

\* def tavily_text(result: dict) -> str
tavily_text(result) ==
    IF result.kind \in {"none", "nokey"} THEN Ret(<<>>)
    ELSE IF result.kind = "badresults" THEN Raise
    ELSE IF \E i \in 1..Len(result.results) : result.results[i].kind = "bad" THEN Raise
    ELSE Ret(join([i \in 1..Len(result.results) |-> item_get_content(result.results[i])]))

\* The body of safe_tavily's try block: the search, then tavily_text, then
\* limit_text; raises when the search or tavily_text raised.
tavily_try(response) ==
    IF response.kind = "raise" THEN Raise
    ELSE LET t == tavily_text(response)
         IN IF t.raised THEN Raise ELSE Ret(limit_text(PyStr(t.val), max_chars))

\* safe_tavily without its except clause.
safe_tavily_noexcept(response) == tavily_try(response)

\* def safe_tavily(query, depth): try: ... except Exception: return ""
safe_tavily(response) ==
    LET r == tavily_try(response)
    IN IF r.raised THEN Ret(<<>>) ELSE r


\* ------------------------------------------------------ inputs explored

\* A text whose first and last characters differ from the rest, so that a
\* prefix is told from any other slice.
LongText(n) == [i \in 1..n |-> IF i = 1 THEN "h" ELSE IF i = n THEN "t" ELSE "x"]

Contents == {<<>>, <<"a">>, <<"b", "c">>, LongText(LongLen)}

Items == {ItemText(t) : t \in Contents} \cup {ItemNoContent, ItemBad}

SeqsUpTo(S, n) == UNION {[1..k -> S] : k \in 0..n}

\* Every response the unit specification feeds to safe_tavily.
AllResponses ==
    {Response(k, <<>>) : k \in {"raise", "none", "nokey", "badresults"}}
    \cup {Response("ok", items) : items \in SeqsUpTo(Items, MaxItems)}

\* Every value the unit specification feeds to limit_text.
TextInputs ==
    {PyNone} \cup {PyStr(t) : t \in Contents}
    \cup {PyStr(LongText(LongLen + k)) : k \in 1..3}

\* The responses a search of the pipeline gets: it raises, has no "results",
\* holds an item str.join raises on, holds no item, or holds one content.
SearchResponses ==
    { Response("raise", <<>>),
      Response("nokey", <<>>),
      Response("ok", <<ItemBad>>),
      Response("ok", <<>>),
      Response("ok", <<ItemText(<<"a">>)>>) }

\* A search that failed: it raised, or its results are malformed or missing.
SearchFailed(r) ==
    \/ r.kind \in {"raise", "none", "nokey", "badresults"}
    \/ \E i \in 1..Len(r.results) : r.results[i].kind = "bad"

\* What the user may type into the "Company Name" box.
Companies == {"", "Acme", "Bolt"}

\* class CompanyReport(BaseModel)
CompanyReport(o, rd, e, fp, sc, src) ==
    [company_overview |-> o, recent_developments |-> rd, earnings_summary |-> e,
     future_plans |-> fp, stock_context |-> sc, sources |-> src]

\* The records the model may answer with.
Reports ==
    { CompanyReport("Acme makes widgets.", <<>>, "", "", "", <<>>),
      CompanyReport("o", <<"d1", "d2">>, "e", "f", "s", <<"https://a", "https://b">>),
      CompanyReport("", <<"d2">>, "e", "", "s", <<"https://b", "https://a", "https://b">>) }

MaxClock == ClockStart + ClockSpan

\* ------------------------------------------------------ REPORT GENERATION

\* The searches with the news query issued first.
FacetsNewsFirst == <<"news", "overview", "earnings", "future_plans", "stock_news">>

\* The five searches of generate_report, in the order of the calls.
Facets == <<"overview", "news", "earnings", "future_plans", "stock_news">>

FacetSet == {Facets[i] : i \in 1..Len(Facets)}

\* The f-string suffix of each query.
Suffix(f) ==
    CASE f = "overview" -> " company overview"
      [] f = "news" -> " recent news"
      [] f = "earnings" -> " earnings"
      [] f = "future_plans" -> " future plans"
      [] f = "stock_news" -> " stock news"

\* search_depth: "basic" for the overview, the default "advanced" otherwise.
Depth(f) == IF f = "overview" THEN "basic" ELSE "advanced"

\* "Company overview information not available."
Fallback == <<"C", "o", "m", "p", "a", "n", "y", " ", "o", "v", "e", "r", "v", "i", "e", "w", " ", "i", "n", "f", "o", "r", "m", "a", "t", "i", "o", "n", " ", "n", "o", "t", " ", "a", "v", "a", "i", "l", "a", "b", "l", "e", ".">>

NoFacets == [f \in FacetSet |-> <<>>]

\* The overview without the fallback of line 146.
overview_nofallback(overview) == overview

\* if not overview: overview = "Company overview information not available."
overview_or_fallback(overview) == IF overview = <<>> THEN Fallback ELSE overview

\* analysis_prompt.format_messages(overview=..., news=..., ...): the five
\* texts interpolated into the fixed template.
format_messages(overview, news, earnings, future_plans, stock_news) ==
    [overview |-> overview, news |-> news, earnings |-> earnings,
     future_plans |-> future_plans, stock_news |-> stock_news]

Pad2(n) == IF n < 10 THEN "0" \o ToString(n) ELSE ToString(n)

Hour(t) == t \div 3600
Minute(t) == (t \div 60) % 60
Second(t) == t % 60

\* strftime("%Y-%m-%d %H:%M UTC")
strftime_minute(t) == "2024-01-01 " \o Pad2(Hour(t)) \o ":" \o Pad2(Minute(t)) \o " UTC"

\* strftime("%Y%m%d_%H%M%S")
strftime_stamp(t) == "20240101_" \o Pad2(Hour(t)) \o Pad2(Minute(t)) \o Pad2(Second(t))

\* strftime("%Y-%m-%d %H:%M:%S") of one fixed day: the zero-padded fields in
\* the order of the text, which SQLite compares as TEXT, field by field.
strftime_seconds(t) == <<Hour(t), Minute(t), Second(t)>>

\* a <= b for two created_at texts
TextLeq(a, b) ==
    \/ a[1] < b[1]
    \/ a[1] = b[1] /\ a[2] < b[2]
    \/ a[1] = b[1] /\ a[2] = b[2] /\ a[3] <= b[3]

Paragraph(text, style) == [kind |-> "Paragraph", text |-> text, style |-> style, height |-> 0]
Spacer(h) == [kind |-> "Spacer", text |-> "", style |-> "", height |-> h]

Bullets(items) == [i \in 1..Len(items) |-> Paragraph("- " \o items[i], "Normal")]

\* The story with the Earnings Summary and Future Plans sections swapped.
build_story_swapped(c, created, r) ==
    << Paragraph(c \o " Research Report", "Title"), Spacer(8),
       Paragraph("<i>Created on: " \o created \o "</i>", "Normal"), Spacer(12),
       Paragraph("<b>Company Overview</b>", "Heading2"),
       Paragraph(r.company_overview, "Normal"), Spacer(10),
       Paragraph("<b>Recent Developments</b>", "Heading2") >>
    \o Bullets(r.recent_developments)
    \o << Spacer(10), Paragraph("<b>Future Plans</b>", "Heading2"),
          Paragraph(r.future_plans, "Normal"),
          Spacer(10), Paragraph("<b>Earnings Summary</b>", "Heading2"),
          Paragraph(r.earnings_summary, "Normal"),
          Spacer(10), Paragraph("<b>Stock Context</b>", "Heading2"),
          Paragraph(r.stock_context, "Normal"),
          Spacer(12), Paragraph("<b>Sources</b>", "Heading2") >>
    \o Bullets(r.sources)

\* story = [] ... story.append(...) of lines 166-196
build_story(c, created, r) ==
    << Paragraph(c \o " Research Report", "Title"), Spacer(8),
       Paragraph("<i>Created on: " \o created \o "</i>", "Normal"), Spacer(12),
       Paragraph("<b>Company Overview</b>", "Heading2"),
       Paragraph(r.company_overview, "Normal"), Spacer(10),
       Paragraph("<b>Recent Developments</b>", "Heading2") >>
    \o Bullets(r.recent_developments)
    \o << Spacer(10), Paragraph("<b>Earnings Summary</b>", "Heading2"),
          Paragraph(r.earnings_summary, "Normal"),
          Spacer(10), Paragraph("<b>Future Plans</b>", "Heading2"),
          Paragraph(r.future_plans, "Normal"),
          Spacer(10), Paragraph("<b>Stock Context</b>", "Heading2"),
          Paragraph(r.stock_context, "Normal"),
          Spacer(12), Paragraph("<b>Sources</b>", "Heading2") >>
    \o Bullets(r.sources)

\* file_name = f"{company}_{timestamp}.pdf"
FileName(c, timestamp) == c \o "_" \o timestamp \o ".pdf"

\* A row with the company left out of the VALUES tuple.
NewRowNoCompany(id, c, path, created) ==
    [id |-> id, company |-> "", pdf_path |-> path, created_at |-> created]

\* INSERT INTO reports (company, pdf_path, created_at) VALUES (?, ?, ?)
NewRow(id, c, path, created) ==
    [id |-> id, company |-> c, pdf_path |-> path, created_at |-> created]

Bijections(n) == {p \in [1..n -> 1..n] : \A i, j \in 1..n : p[i] = p[j] => i = j}

\* SELECT ... ORDER BY created_at with no DESC.
order_by_created_at_asc(rows) ==
    { s \in {[i \in 1..Len(rows) |-> rows[p[i]]] : p \in Bijections(Len(rows))} :
        \A i, j \in 1..Len(s) : i < j => TextLeq(s[i].created_at, s[j].created_at) }

\* SELECT company, pdf_path, created_at FROM reports ORDER BY created_at DESC:
\* every order of the rows that is descending in created_at (SQL leaves the
\* order of rows with equal keys open).
order_by_created_at_desc(rows) ==
    { s \in {[i \in 1..Len(rows) |-> rows[p[i]]] : p \in Bijections(Len(rows))} :
        \A i, j \in 1..Len(s) : i < j => TextLeq(s[j].created_at, s[i].created_at) }

\* The download button of a history row, offered whatever os.path.exists says.
history_entry_nocheck(row, on_disk) ==
    [company |-> row.company, date |-> row.created_at, pdf |-> row.pdf_path,
     download |-> TRUE]

\* One row of the history tab: st.write(company, date) and, if
\* os.path.exists(pdf), the download button.
history_entry(row, on_disk) ==
    [company |-> row.company, date |-> row.created_at, pdf |-> row.pdf_path,
     download |-> row.pdf_path \in on_disk]

\* -------------------------------------------------------------- state

VARIABLES
    runs,               \* script runs started so far
    pc,                 \* where the script run stands
    company,            \* st.text_input("Company Name") of this run
    clicked,            \* st.button("Generate Report") of this run
    tab1_out,           \* what tab1 has shown in this run
    tab2_out,           \* what tab2 has shown in this run
    fi,                 \* generate_report: index of the next search
    facet_text,         \* generate_report: overview, news, ..., stock_news
    messages,           \* generate_report: the formatted prompt, once built
    report,             \* generate_report: the CompanyReport, once returned
    created_at,         \* generate_report: the caption's timestamp
    file_name,          \* generate_report: the PDF's name
    story,              \* generate_report: the document's flowables
    pdf_path,           \* tab1: what generate_report returned
    err,                \* the call whose exception ended the run, or ""
    now,                \* the last value read from the clock
    files,              \* names of the PDF files on disk
    deleted,            \* names of the files deleted from outside in this run
    table,              \* the committed rows of reports, in rowid order
    pending,            \* the rows inserted on conn and not yet committed
    calls,              \* the external calls of this run, in order
    failed,             \* the facets whose search failed in this run
    table0,             \* table when this run started
    files0,             \* files when this run started
    existed_at_insert,  \* whether pdf_path was on disk at the INSERT
    interrupted_at,     \* pc at which this run was interrupted, or ""
    text_in,            \* unit specification: argument of limit_text
    resp_in,            \* unit specification: response given to safe_tavily
    text_out,           \* unit specification: what limit_text returned
    facet_out           \* unit specification: what safe_tavily returned

uiVars == <<company, clicked, tab1_out, tab2_out>>
grVars == <<fi, facet_text, messages, report, created_at, file_name, story>>
diskVars == <<files, deleted>>
dbVars == <<table, pending>>
snapVars == <<table0, files0>>
unitVars == <<text_in, resp_in, text_out, facet_out>>

vars == <<runs, pc, uiVars, grVars, pdf_path, err, now, diskVars, dbVars, calls,
          failed, snapVars, existed_at_insert, interrupted_at, unitVars>>

\* generate_report's frame is gone: it returned, or an exception unwound it.
Unwind ==
    /\ fi' = 1
    /\ facet_text' = NoFacets
    /\ messages' = <<>>
    /\ report' = <<>>
    /\ created_at' = ""
    /\ file_name' = ""
    /\ story' = <<>>

PipelineInit ==
    /\ runs = 0
    /\ pc = "idle"
    /\ company = ""
    /\ clicked = FALSE
    /\ tab1_out = <<>>
    /\ tab2_out = [warning |-> FALSE, entries |-> <<>>]
    /\ fi = 1
    /\ facet_text = NoFacets
    /\ messages = <<>>
    /\ report = <<>>
    /\ created_at = ""
    /\ file_name = ""
    /\ story = <<>>
    /\ pdf_path = ""
    /\ err = ""
    /\ now = ClockStart
    /\ files = {}
    /\ deleted = {}
    /\ table = <<>>
    /\ pending = <<>>
    /\ calls = <<>>
    /\ failed = {}
    /\ table0 = <<>>
    /\ files0 = {}
    /\ existed_at_insert = FALSE
    /\ interrupted_at = ""

\* Module level (lines 28-49) has run: the table exists and is empty, nothing
\* has been generated.
Init ==
    /\ PipelineInit
    /\ text_in = PyNone
    /\ resp_in = Response("none", <<>>)
    /\ text_out = <<>>
    /\ facet_out = <<>>

\* ------------------------------------------------------------ actions

\* A user interaction: Streamlit runs the script from the top with the
\* widgets' values.  Module level re-executes: CREATE TABLE IF NOT EXISTS
\* changes nothing.
Rerun(c, b) ==
    /\ pc \in {"idle", "done", "error"}
    /\ runs < MaxRuns
    /\ runs' = runs + 1
    /\ company' = c
    /\ clicked' = b
    /\ tab1_out' = <<>>
    /\ tab2_out' = [warning |-> FALSE, entries |-> <<>>]
    /\ pdf_path' = ""
    /\ err' = ""
    /\ calls' = <<>>
    /\ failed' = {}
    /\ table0' = table
    /\ files0' = files
    /\ existed_at_insert' = FALSE
    /\ interrupted_at' = ""
    /\ deleted' = {}
    /\ pc' = "tab1"
    /\ UNCHANGED <<grVars, now, files, dbVars, unitVars>>

\* with tab1: lines 212-219
Tab1 ==
    /\ pc = "tab1"
    /\ IF ~clicked
       THEN pc' = "tab2" /\ UNCHANGED tab1_out
       ELSE IF company = ""
       THEN pc' = "tab2" /\ tab1_out' = <<"error: Please enter a company name">>
       ELSE pc' = "search" /\ tab1_out' = <<"info: Collecting data and generating report...">>
    /\ UNCHANGED <<runs, company, clicked, tab2_out, grVars, pdf_path, err, now, diskVars,
                   dbVars, calls, failed, snapVars, existed_at_insert, interrupted_at,
                   unitVars>>

\* Line 128: TavilyClient(api_key=os.getenv("TAVILY_API_KEY")) raises (no
\* key in the environment); it stands outside safe_tavily's try.
ClientRaise ==
    /\ pc = "search"
    /\ fi = 1
    /\ Unwind
    /\ err' = "client"
    /\ pc' = "error"
    /\ UNCHANGED <<runs, uiVars, pdf_path, now, diskVars, dbVars, calls, failed, snapVars,
                   existed_at_insert, interrupted_at, unitVars>>

SearchCall(c, f) == [api |-> "search", arg |-> c \o Suffix(f), depth |-> Depth(f)]

\* One of lines 140-144: the facet's search through safe_tavily.
Search(r) ==
    /\ pc = "search"
    /\ LET f == Facets[fi]
           res == safe_tavily(r)
       IN /\ calls' = Append(calls, SearchCall(company, f))
          /\ IF res.raised
             THEN /\ pc' = "error"
                  /\ err' = "search"
                  /\ Unwind
                  /\ UNCHANGED failed
             ELSE /\ facet_text' = [facet_text EXCEPT ![f] = res.val]
                  /\ failed' = IF SearchFailed(r) THEN failed \cup {f} ELSE failed
                  /\ fi' = IF fi = Len(Facets) THEN fi ELSE fi + 1
                  /\ pc' = IF fi = Len(Facets) THEN "prompt" ELSE "search"
                  /\ UNCHANGED <<messages, report, created_at, file_name, story, err>>
    /\ UNCHANGED <<runs, uiVars, pdf_path, now, diskVars, dbVars, snapVars,
                   existed_at_insert, interrupted_at, unitVars>>

\* Lines 146-155: the overview's fallback, then the prompt.
Prompt ==
    /\ pc = "prompt"
    /\ facet_text' = [facet_text EXCEPT
                         !["overview"] = overview_or_fallback(facet_text["overview"])]
    /\ messages' = << format_messages(facet_text'["overview"], facet_text["news"],
                                      facet_text["earnings"], facet_text["future_plans"],
                                      facet_text["stock_news"]) >>
    /\ pc' = "llm"
    /\ UNCHANGED <<runs, uiVars, fi, report, created_at, file_name, story, pdf_path, err,
                   now, diskVars, dbVars, calls, failed, snapVars, existed_at_insert,
                   interrupted_at, unitVars>>

LlmCall == [api |-> "llm", arg |-> "", depth |-> ""]

\* Lines 157-158: structured_llm.invoke(messages) returns a CompanyReport.
\* Nothing after line 158 reads the five texts or the prompt: the model
\* forgets them (and which searches failed) once the call is made.
LlmReturn(r) ==
    /\ pc = "llm"
    /\ calls' = Append(calls, LlmCall)
    /\ report' = <<r>>
    /\ facet_text' = NoFacets
    /\ messages' = <<>>
    /\ failed' = {}
    /\ pc' = "compose"
    /\ UNCHANGED <<runs, uiVars, fi, created_at, file_name, story, pdf_path, err, now,
                   diskVars, dbVars, snapVars, existed_at_insert, interrupted_at,
                   unitVars>>

\* The model call failing after the PDF file was already opened for writing.
LlmRaiseAfterWrite ==
    /\ pc = "llm"
    /\ calls' = Append(calls, LlmCall)
    /\ files' = files \cup {FileName(company, strftime_stamp(now))}
    /\ Unwind
    /\ failed' = {}
    /\ err' = "llm"
    /\ pc' = "error"
    /\ UNCHANGED <<runs, uiVars, pdf_path, now, deleted, dbVars, snapVars,
                   existed_at_insert, interrupted_at, unitVars>>

\* Lines 157-158: structured_llm.invoke(messages) raises; nothing catches it.
LlmRaise ==
    /\ pc = "llm"
    /\ calls' = Append(calls, LlmCall)
    /\ Unwind
    /\ failed' = {}
    /\ err' = "llm"
    /\ pc' = "error"
    /\ UNCHANGED <<runs, uiVars, pdf_path, now, diskVars, dbVars, snapVars,
                   existed_at_insert, interrupted_at, unitVars>>

\* Lines 160-196: two reads of the clock, the file name, the story.
Compose(t1, t2) ==
    /\ pc = "compose"
    /\ now <= t1 /\ t1 <= t2
    /\ now' = t2
    /\ created_at' = strftime_minute(t1)
    /\ file_name' = FileName(company, strftime_stamp(t2))
    /\ story' = build_story(company, created_at', report[1])
    /\ pc' = "build"
    /\ UNCHANGED <<runs, uiVars, fi, facet_text, messages, report, pdf_path, err,
                   diskVars, dbVars, calls, failed, snapVars, existed_at_insert,
                   interrupted_at, unitVars>>

PdfCall(name) == [api |-> "pdf", arg |-> name, depth |-> ""]

\* generate_report returning the name without pdf.build having run.
BuildNoWrite ==
    /\ pc = "build"
    /\ calls' = Append(calls, PdfCall(file_name))
    /\ pdf_path' = file_name
    /\ Unwind
    /\ pc' = "insert"
    /\ UNCHANGED <<runs, uiVars, err, now, diskVars, dbVars, failed, snapVars,
                   existed_at_insert, interrupted_at, unitVars>>

\* Lines 198-200 and 221: pdf.build(story) writes the file (over one of the
\* same name), generate_report returns its name.
Build ==
    /\ pc = "build"
    /\ calls' = Append(calls, PdfCall(file_name))
    /\ files' = files \cup {file_name}
    /\ pdf_path' = file_name
    /\ Unwind
    /\ pc' = "insert"
    /\ UNCHANGED <<runs, uiVars, err, now, deleted, dbVars, failed, snapVars,
                   existed_at_insert, interrupted_at, unitVars>>

\* Line 198: pdf.build(story) raises (layout error, disk error); the file it
\* opened may or may not be left behind.
BuildRaise(left) ==
    /\ pc = "build"
    /\ calls' = Append(calls, PdfCall(file_name))
    /\ files' = IF left THEN files \cup {file_name} ELSE files
    /\ Unwind
    /\ err' = "build"
    /\ pc' = "error"
    /\ UNCHANGED <<runs, uiVars, pdf_path, now, deleted, dbVars, failed, snapVars,
                   existed_at_insert, interrupted_at, unitVars>>

InsertCall(path) == [api |-> "insert", arg |-> path, depth |-> ""]

\* Lines 223-226: cursor.execute(INSERT ...) with a third read of the clock;
\* AUTOINCREMENT gives the next rowid.
Insert(t) ==
    /\ pc = "insert"
    /\ now <= t
    /\ now' = t
    /\ calls' = Append(calls, InsertCall(pdf_path))
    /\ pending' = Append(pending,
                         NewRow(Len(table) + Len(pending) + 1, company, pdf_path,
                                strftime_seconds(t)))
    /\ existed_at_insert' = (pdf_path \in files)
    /\ pc' = "commit"
    /\ UNCHANGED <<runs, uiVars, grVars, pdf_path, err, diskVars, table, failed, snapVars,
                   interrupted_at, unitVars>>

\* Lines 223-226: cursor.execute raises (database error).
InsertRaise ==
    /\ pc = "insert"
    /\ calls' = Append(calls, InsertCall(pdf_path))
    /\ err' = "insert"
    /\ pc' = "error"
    /\ UNCHANGED <<runs, uiVars, grVars, pdf_path, now, diskVars, dbVars, failed,
                   snapVars, existed_at_insert, interrupted_at, unitVars>>

\* A commit that replaces the table by the rows of the transaction.
CommitRowsReplace(committed, uncommitted) == uncommitted

\* What the table holds once the transaction's rows are committed.
CommitRows(committed, uncommitted) == committed \o uncommitted

\* Line 227: conn.commit()
Commit ==
    /\ pc = "commit"
    /\ table' = CommitRows(table, pending)
    /\ pending' = <<>>
    /\ pc' = "offer"
    /\ UNCHANGED <<runs, uiVars, grVars, pdf_path, err, now, diskVars, calls, failed,
                   snapVars, existed_at_insert, interrupted_at, unitVars>>

\* Lines 229-237: st.success, then open(pdf_path, "rb") for the download
\* button; open raises when the file is gone.
Offer ==
    /\ pc = "offer"
    /\ IF pdf_path \in files
       THEN /\ tab1_out' = tab1_out \o <<"success: Report generated successfully",
                                         "download: " \o pdf_path>>
            /\ pc' = "tab2"
            /\ UNCHANGED err
       ELSE /\ tab1_out' = tab1_out \o <<"success: Report generated successfully">>
            /\ err' = "open"
            /\ pc' = "error"
    /\ UNCHANGED <<runs, company, clicked, tab2_out, grVars, pdf_path, now, diskVars,
                   dbVars, calls, failed, snapVars, existed_at_insert, interrupted_at,
                   unitVars>>

\* with tab2: lines 240-258, the query and the listing.  The listing is one
\* step: no file is deleted between a row's os.path.exists and its open.
Tab2 ==
    /\ pc = "tab2"
    /\ \E rows \in order_by_created_at_desc(table \o pending) :
          tab2_out' = IF rows = <<>>
                      THEN [warning |-> TRUE, entries |-> <<>>]
                      ELSE [warning |-> FALSE,
                            entries |-> [i \in 1..Len(rows) |-> history_entry(rows[i], files)]]
    /\ pc' = "done"
    /\ UNCHANGED <<runs, company, clicked, tab1_out, grVars, pdf_path, err, now, diskVars,
                   dbVars, calls, failed, snapVars, existed_at_insert, interrupted_at,
                   unitVars>>

\* The process is interrupted (killed, restarted) in the middle of a run:
\* the run's frames are gone and the uncommitted INSERT is rolled back.
Interrupt ==
    /\ pc \notin {"idle", "done", "error"}
    /\ interrupted_at' = pc
    /\ pc' = "idle"
    /\ Unwind
    /\ pdf_path' = ""
    /\ pending' = <<>>
    /\ UNCHANGED <<runs, uiVars, err, now, diskVars, table, calls, failed, snapVars,
                   existed_at_insert, unitVars>>

\* Someone outside the program deletes a PDF file.
ExternalDelete(f) ==
    /\ f \in files
    /\ files' = files \ {f}
    /\ deleted' = deleted \cup {f}
    /\ UNCHANGED <<runs, pc, uiVars, grVars, pdf_path, err, now, dbVars, calls, failed,
                   snapVars, existed_at_insert, interrupted_at, unitVars>>

Next ==
    \/ \E c \in Companies, b \in BOOLEAN : Rerun(c, b)
    \/ Tab1
    \/ ClientRaise
    \/ \E r \in SearchResponses : Search(r)
    \/ Prompt
    \/ \E r \in Reports : LlmReturn(r)
    \/ LlmRaise
    \/ \E t1, t2 \in ClockStart..MaxClock : Compose(t1, t2)
    \/ Build
    \/ \E left \in BOOLEAN : BuildRaise(left)
    \/ \E t \in ClockStart..MaxClock : Insert(t)
    \/ InsertRaise
    \/ Commit
    \/ Offer
    \/ Tab2
    \/ Interrupt
    \/ \E f \in files : ExternalDelete(f)

Spec == Init /\ [][Next]_vars

\* ---------------------------------------------------- unit specification

\* limit_text and safe_tavily called on their own, on every input of
\* TextInputs and AllResponses.
InitText ==
    /\ PipelineInit
    /\ text_in \in TextInputs
    /\ resp_in \in AllResponses
    /\ text_out = <<>>
    /\ facet_out = <<>>

CallLimitText ==
    /\ text_out = <<>>
    /\ text_out' = <<limit_text(text_in, max_chars)>>
    /\ UNCHANGED <<runs, pc, uiVars, grVars, pdf_path, err, now, diskVars, dbVars, calls,
                   failed, snapVars, existed_at_insert, interrupted_at, text_in, resp_in,
                   facet_out>>

CallSafeTavily ==
    /\ facet_out = <<>>
    /\ facet_out' = <<safe_tavily(resp_in)>>
    /\ UNCHANGED <<runs, pc, uiVars, grVars, pdf_path, err, now, diskVars, dbVars, calls,
                   failed, snapVars, existed_at_insert, interrupted_at, text_in, resp_in,
                   text_out>>

NextText == CallLimitText \/ CallSafeTavily

SpecText == InitText /\ [][NextText]_vars

\* ------------------------------------------------------------- claims

\* The "Generate Report" handler of this run ran to its end without raising.
GenerateCompleted == pc \in {"tab2", "done"} /\ clicked /\ company # ""

\* C1: a Generate action with a non-empty company name that completes
\* successfully has added exactly one row to reports; the row's company is
\* the name entered, and its pdf_path (what generate_report returned) named a
\* file on disk when the row was inserted.
C1_GenerateAddsOneRow ==
    GenerateCompleted =>
        /\ Len(table) = Len(table0) + 1
        /\ SubSeq(table, 1, Len(table0)) = table0
        /\ pending = <<>>
        /\ table[Len(table)].company = company
        /\ table[Len(table)].pdf_path = pdf_path
        /\ existed_at_insert

C1_Witness ==
    /\ pc = "done" /\ clicked /\ company = "Acme"
    /\ Len(table0) = 1 /\ Len(table) = 2
    /\ table[1].company = "Bolt"

C2_PromptStep ==
    (pc = "prompt" /\ pc' = "llm") =>
        LET got == facet_text["overview"]
            o == messages'[1].overview
        IN /\ o # <<>>
           /\ got = <<>> => o = Fallback
           /\ got # <<>> => o = got /\ Len(o) <= 2500

\* C2: the overview handed to the prompt is never empty: when the overview
\* search returned content it is that (truncated, non-empty) content, and when
\* it returned nothing or failed it is exactly the fallback sentence.
C2_OverviewNeverEmpty ==
    /\ [](messages # <<>> => messages[1].overview # <<>>)
    /\ [][C2_PromptStep]_vars

C2_Witness ==
    /\ pc = "llm" /\ messages # <<>>
    /\ "overview" \in failed
    /\ messages[1].overview = Fallback

\* The str a limit_text argument stands for ("" for None).
InputText(v) == IF v.kind = "None" THEN <<>> ELSE v.s

\* C3: limit_text returns at most 2500 characters, a prefix of the input (all
\* of it when it has at most 2500 characters), and "" for an empty or missing
\* input; a text coming out of safe_tavily has at most 2500 characters.
C3_LimitText ==
    /\ text_out # <<>> =>
          /\ Len(text_out[1]) <= 2500
          /\ IsPrefix(text_out[1], InputText(text_in))
          /\ Len(InputText(text_in)) <= 2500 => text_out[1] = InputText(text_in)
          /\ InputText(text_in) = <<>> => text_out[1] = <<>>
    /\ facet_out # <<>> => Len(facet_out[1].val) <= 2500

C3_Witness ==
    /\ text_out # <<>> /\ Len(text_in.s) > 2500 /\ Len(text_out[1]) = 2500
    /\ facet_out # <<>> /\ Len(facet_out[1].val) = 2500
    /\ Len(resp_in.results) = 2 /\ resp_in.results[2].content = <<"b", "c">>

\* C4: a failed search yields the empty text and never an exception; the run
\* goes on, and a failed news, earnings, future-plans or stock facet is the
\* empty string in the prompt.
C4_FailedSearchIsEmpty ==
    /\ err # "search"
    /\ \A f \in failed :
          /\ pc \in {"search", "prompt"} => facet_text[f] = <<>>
          /\ (messages # <<>> /\ f # "overview") => messages[1][f] = <<>>
    /\ failed # {} => pc \in {"search", "prompt", "llm", "idle"}

C4_Witness ==
    /\ pc = "llm" /\ messages # <<>>
    /\ failed = FacetSet
    /\ Len(calls) = 5

\* C5: when the model call raises, the run ends with no PDF written and no
\* row inserted: the table is as it was when the run started, and so are the
\* files (up to deletions from outside).
C5_LlmFailureLeavesNothing ==
    err = "llm" =>
        /\ pc = "error"
        /\ table = table0
        /\ pending = <<>>
        /\ files \subseteq files0
        /\ files0 \ files \subseteq deleted
        /\ \A i \in 1..Len(calls) : calls[i].api \notin {"pdf", "insert"}

C5_Witness ==
    /\ err = "llm" /\ runs = 2
    /\ Len(table) = 1 /\ files # {}

C6_Listing(entries, rows, on_disk) ==
    /\ Len(entries) = Len(rows)
    /\ \E p \in Bijections(Len(rows)) :
          \A i \in 1..Len(rows) :
              /\ entries[i].company = rows[p[i]].company
              /\ entries[i].date = rows[p[i]].created_at
              /\ entries[i].download = (rows[p[i]].pdf_path \in on_disk)
    /\ \A i, j \in 1..Len(entries) :
          i < j => TextLeq(entries[j].date, entries[i].date)

C6_Tab2Step ==
    pc = "tab2" =>
        /\ pc' # "error"
        /\ pc' = "done" =>
              /\ err' = ""
              /\ C6_Listing(tab2_out'.entries, table, files)
              /\ tab2_out'.warning = (table = <<>>)

Kth(S, k) == CHOOSE i \in S : Cardinality({j \in S : j < i}) = k - 1

HeadingIdx(st) == {i \in 1..Len(st) : st[i].style = "Heading2"}

\* The texts of the paragraphs between the k-th heading and the next one.
SectionBody(st, k) ==
    LET H == HeadingIdx(st)
        lo == Kth(H, k)
        hi == IF k = Cardinality(H) THEN Len(st) + 1 ELSE Kth(H, k + 1)
        body == {i \in (lo + 1)..(hi - 1) : st[i].kind = "Paragraph"}
    IN [n \in 1..Cardinality(body) |-> st[Kth(body, n)].text]

SectionTitles ==
    << "<b>Company Overview</b>", "<b>Recent Developments</b>", "<b>Earnings Summary</b>",
       "<b>Future Plans</b>", "<b>Stock Context</b>", "<b>Sources</b>" >>

\* C7: the document has the six sections in the fixed order; a text field is
\* one paragraph, a list field one "- item" line per item in the list's order.
C7_SectionsInOrder ==
    pc = "build" =>
        LET r == report[1]
            H == HeadingIdx(story)
        IN /\ Cardinality(H) = 6
           /\ \A k \in 1..6 : story[Kth(H, k)].text = SectionTitles[k]
           /\ SectionBody(story, 1) = <<r.company_overview>>
           /\ SectionBody(story, 2) =
                 [i \in 1..Len(r.recent_developments) |-> "- " \o r.recent_developments[i]]
           /\ SectionBody(story, 3) = <<r.earnings_summary>>
           /\ SectionBody(story, 4) = <<r.future_plans>>
           /\ SectionBody(story, 5) = <<r.stock_context>>
           /\ SectionBody(story, 6) = [i \in 1..Len(r.sources) |-> "- " \o r.sources[i]]

C7_Witness ==
    /\ pc = "build"
    /\ report[1].recent_developments = <<"d1", "d2">>
    /\ Len(story) = 23

\* The names of the PDF files this run wrote.
WrittenThisRun == {calls[i].arg : i \in {j \in 1..Len(calls) : calls[j].api = "pdf"}}

C9_RowsNeverChange ==
    [][ /\ Len(table') >= Len(table)
        /\ \A i \in 1..Len(table) : table'[i] = table[i] ]_vars

C9_Witness ==
    /\ runs = 2 /\ pc = "done"
    /\ clicked /\ company = ""
    /\ Len(table0) = 1 /\ table = table0

ExpectedSuffixes ==
    <<" company overview", " recent news", " earnings", " future plans", " stock news">>

\* C10: the calls of a run are a prefix of: the five searches in the order
\* overview, news, earnings, future plans, stock news (each once), the model
\* call, the PDF write, the row insert; nothing follows a model call or a PDF
\* write that raised.
C10_CallOrder ==
    /\ Len(calls) <= 8
    /\ \A i \in 1..Len(calls) :
          /\ i <= 5 => /\ calls[i].api = "search"
                       /\ calls[i].arg = company \o ExpectedSuffixes[i]
          /\ i = 6 => calls[i].api = "llm"
          /\ i = 7 => calls[i].api = "pdf"
          /\ i = 8 => calls[i].api = "insert"
    /\ pc = "llm" => Len(calls) = 5
    /\ err = "llm" => Len(calls) = 6
    /\ err = "build" => Len(calls) = 7
    /\ (pending # <<>> \/ table # table0) => Len(calls) = 8

C10_Witness ==
    /\ pc = "done" /\ Len(calls) = 8
    /\ Len(table) = Len(table0) + 1

====
